---- MODULE Spec2Model ----
(***************************************************************************)
(* DMatrix (src/src/dmatrix.rs): the owning wrapper around an XGBoost      *)
(* DMatrixHandle.  The wrapper's methods are modelled from the source; the *)
(* engine behind xgboost_sys and the xgb_call! macro live outside the file *)
(* and are modelled from the specification's description of them.          *)
(*                                                                         *)
(* Every method is one action.  The statuses the engine returns for the    *)
(* calls a method issues are inputs of the action (st), so a run of the    *)
(* model fixes, call by call, whether the engine succeeds or fails.        *)
(***************************************************************************)
EXTENDS Integers, Sequences, FiniteSets

VARIABLES
    alloc,      \* engine: handles created and not yet freed
    nextH,      \* engine: the next handle a creation call hands out
    freeCalls,  \* engine: number of XGDMatrixFree calls received per handle
    shape,      \* engine: [rows, cols] of each handle's matrix
    info,       \* engine: the four auxiliary fields of each handle
    group,      \* engine: the group boundaries of each handle (write-only)
    files,      \* file system: content of each path
    dmats,      \* program: the live DMatrix values
    views,      \* program: the live slices returned by the getters
    mode,       \* program: "running", "unwinding" (a panic), "aborted"
    lastSet,    \* history: array of the latest successful set_X per handle, key
    fromFile,   \* history: whether the handle was created by XGDMatrixCreateFromFile
    saved,      \* history: shape of the DMatrix whose save to the path last returned Ok
    nsets,      \* history: number of set_* calls made so far
    lastOp      \* history: the latest method call, its inputs, engine calls and result

engineVars == <<alloc, nextH, freeCalls, shape, info, group, files>>
progVars   == <<dmats, views, mode>>
histVars   == <<lastSet, fromFile, saved, nsets>>
vars       == <<alloc, nextH, freeCalls, shape, info, group, files,
                dmats, views, mode, lastSet, fromFile, saved, nsets, lastOp>>

---------------------------------------------------------------------------
(* Bounds and input samples *)

MaxHandles == 2          \* handles the engine hands out in one run
MaxInfoHandles == 1      \* the same in a run of SpecInfo or SpecAll
MaxSets    == 2          \* set_* calls in one run

NULL    == 0             \* ptr::null_mut()
Handles == 0 .. MaxHandles + 1
Status  == {0, -1}       \* what an engine call returns

KEY_ROOT_INDEX  == "root_index"
KEY_LABEL       == "label"
KEY_WEIGHT      == "weight"
KEY_BASE_MARGIN == "base_margin"
Keys == {KEY_ROOT_INDEX, KEY_LABEL, KEY_WEIGHT, KEY_BASE_MARGIN}

Unset == <<-1>>          \* history marker: no successful set_X yet
None  == <<>>            \* Option::None; Some(n) is <<n>>
Some(n) == <<n>>

\* Paths are byte strings; the second holds an interior NUL byte.
PathA   == <<97>>
PathNul == <<97, 0, 98>>
Paths   == {PathA, PathNul}
ValidPaths == {PathA}

EmptyInfo == [k \in Keys |-> <<>>]
UnsetAll  == [k \in Keys |-> Unset]
NoShape   == [rows |-> -1, cols |-> -1]
NullShape == [rows |-> 0, cols |-> 0]

\* The file the program starts with: a data set of 2 rows and 3 columns
\* carrying labels, as the LibSVM files the tests load do.
DataFile == [shape |-> [rows |-> 2, cols |-> 3],
             info  |-> [EmptyInfo EXCEPT ![KEY_LABEL] = <<1, 0>>],
             group |-> <<>>]

---------------------------------------------------------------------------
(* Helpers *)

SeqMax(s) == CHOOSE x \in {s[i] : i \in 1..Len(s)} :
                 \A j \in 1..Len(s) : s[j] <= x

Min(a, b) == IF a <= b THEN a ELSE b

Call(fn, st) == [fn |-> fn, st |-> st]

HasNul(bytes) == \E i \in 1..Len(bytes) : bytes[i] = 0

\* ffi::CString::new(bytes): Err when the bytes hold an interior NUL.
CStringNew(bytes) == IF HasNul(bytes) THEN "nul_error" ELSE "ok"

\* Option::unwrap_or
UnwrapOr(opt, d) == IF opt = None THEN d ELSE opt[1]

\* xgb_call!: the status of an engine call as an XGBResult.
XgbCall(st) == IF st = 0 THEN "ok" ELSE "err"

NoDM == [handle |-> NULL, num_rows |-> 0, num_cols |-> 0]

BaseOp == [op |-> "none", h |-> NULL, res |-> "ok", calls |-> <<>>,
           key |-> "", arr |-> <<>>, path |-> <<>>,
           nindptr |-> 0, nidx |-> 0, ndata |-> 0, infer |-> 0,
           explicit |-> None, rows |-> -1, cols |-> -1]

Owned(h) == \E dm \in dmats : dm.handle = h
Borrowed(h) == \E v \in views : v.owner = h

---------------------------------------------------------------------------
(* The engine, as the specification describes it *)

\* Dimension the engine infers from the indices it is given.
EngineInferDim(indices) == IF indices = <<>> THEN 0 ELSE SeqMax(indices) + 1

\* XGDMatrixCreateFromCSREx: rows from the pointer array, columns inferred
\* when the count passed is the sentinel 0.  nelem entries are read.
EngineCSRShape(nindptr, indices, nelem, num_col) ==
    LET read == SubSeq(indices, 1, Min(nelem, Len(indices)))
    IN [rows |-> nindptr - 1,
        cols |-> IF num_col > 0 THEN num_col ELSE EngineInferDim(read)]

\* XGDMatrixCreateFromCSCEx: the same with rows and columns swapped.
EngineCSCShape(nindptr, indices, nelem, num_row) ==
    LET read == SubSeq(indices, 1, Min(nelem, Len(indices)))
    IN [rows |-> IF num_row > 0 THEN num_row ELSE EngineInferDim(read),
        cols |-> nindptr - 1]

\* XGDMatrixCreateFromMat
EngineDenseShape(nrow, ncol) == [rows |-> nrow, cols |-> ncol]

\* XGDMatrixSaveBinary: the matrix's shape and the fields the engine tracks.
EngineSnapshot(h) == [shape |-> shape[h], info |-> info[h], group |-> group[h]]

---------------------------------------------------------------------------
(* DMatrix::new and the constructors *)

\* Mutant of DMatrixNew: num_cols is read from the first query's out value.
DMatrixNewReusesOut(handle, eng, st) ==
    LET c1 == Call("XGDMatrixNumRow", st[1])
        c2 == Call("XGDMatrixNumCol", st[2])
    IN IF XgbCall(st[1]) # "ok"
       THEN [res |-> "err", calls |-> <<c1>>, dm |-> NoDM]
       ELSE IF XgbCall(st[2]) # "ok"
       THEN [res |-> "err", calls |-> <<c1, c2>>, dm |-> NoDM]
       ELSE [res |-> "ok", calls |-> <<c1, c2>>,
             dm |-> [handle |-> handle, num_rows |-> eng.rows,
                     num_cols |-> eng.rows]]

\* Mutant of DMatrixNew: the first query lacks its `?`, so the second query
\* is made after the first failed.
DMatrixNewKeepsGoing(handle, eng, st) ==
    LET c1 == Call("XGDMatrixNumRow", st[1])
        c2 == Call("XGDMatrixNumCol", st[2])
    IN IF XgbCall(st[1]) # "ok" \/ XgbCall(st[2]) # "ok"
       THEN [res |-> "err", calls |-> <<c1, c2>>, dm |-> NoDM]
       ELSE [res |-> "ok", calls |-> <<c1, c2>>,
             dm |-> [handle |-> handle, num_rows |-> eng.rows,
                     num_cols |-> eng.cols]]

\* DMatrix::new(handle): query rows, then columns; the first failure returns.
\* eng is the shape the engine holds for the handle, st the two statuses.
DMatrixNew(handle, eng, st) ==
    LET c1 == Call("XGDMatrixNumRow", st[1])
        c2 == Call("XGDMatrixNumCol", st[2])
    IN IF XgbCall(st[1]) # "ok"
       THEN [res |-> "err", calls |-> <<c1>>, dm |-> NoDM]
       ELSE IF XgbCall(st[2]) # "ok"
       THEN [res |-> "err", calls |-> <<c1, c2>>, dm |-> NoDM]
       ELSE [res |-> "ok", calls |-> <<c1, c2>>,
             dm |-> [handle |-> handle, num_rows |-> eng.rows,
                     num_cols |-> eng.cols]]

\* Mutant of ConstructResult: the creation call lacks its `?`, so
\* DMatrix::new runs on whatever the out-parameter holds.
ConstructResultUnchecked(createFn, handle, eng, st) ==
    LET c0 == Call(createFn, st[1])
        n  == DMatrixNew(handle, eng, <<st[2], st[3]>>)
    IN [res |-> n.res, calls |-> <<c0>> \o n.calls, dm |-> n.dm]

\* The tail the four constructors share:
\*     xgb_call!(Create...(.., &mut handle))?;  Ok(DMatrix::new(handle)?)
\* handle is what the creation call left in the out-parameter.
ConstructResult(createFn, handle, eng, st) ==
    LET c0 == Call(createFn, st[1])
    IN IF XgbCall(st[1]) # "ok"
       THEN [res |-> "err", calls |-> <<c0>>, dm |-> NoDM]
       ELSE LET n == DMatrixNew(handle, eng, <<st[2], st[3]>>)
            IN [res |-> n.res, calls |-> <<c0>> \o n.calls, dm |-> n.dm]

\* A constructor past its precondition: the engine creates the matrix when
\* st[1] = 0, and the wrapper runs ConstructResult.
Construct(createFn, engShape, engInfo, engGroup, isFile, st, rec) ==
    LET made == st[1] = 0
        h    == IF made THEN nextH ELSE NULL
        r    == ConstructResult(createFn, h, IF made THEN engShape ELSE NullShape, st)
    IN /\ lastOp' = [rec EXCEPT !.h = h, !.res = r.res, !.calls = r.calls,
                                !.rows = engShape.rows, !.cols = engShape.cols]
       /\ IF made
          THEN /\ nextH' = nextH + 1
               /\ alloc' = alloc \cup {h}
               /\ shape' = [shape EXCEPT ![h] = engShape]
               /\ info' = [info EXCEPT ![h] = engInfo]
               /\ group' = [group EXCEPT ![h] = engGroup]
               /\ fromFile' = [fromFile EXCEPT ![h] = isFile]
          ELSE UNCHANGED <<nextH, alloc, shape, info, group, fromFile>>
       /\ dmats' = IF r.res = "ok" THEN dmats \cup {r.dm} ELSE dmats
       /\ UNCHANGED <<freeCalls, files, views, mode, lastSet, saved, nsets>>

\* A method that panics before any engine call.
Panic(rec) ==
    /\ lastOp' = [rec EXCEPT !.res = "panic"]
    /\ mode' = "unwinding"
    /\ UNCHANGED <<engineVars, dmats, views, histVars>>

\* DMatrix::load(path)
load(path, st) ==
    /\ mode = "running"
    /\ LET rec == [BaseOp EXCEPT !.op = "load", !.path = path]
       IN IF CStringNew(path) # "ok"
          THEN Panic(rec)
          ELSE Construct("XGDMatrixCreateFromFile", files[path].shape,
                         files[path].info, files[path].group, TRUE, st, rec)

\* Mutant of LengthsAgree: the assertion is missing.
LengthsUnchecked(indices, data) == TRUE

\* assert_eq!(indices.len(), data.len())
LengthsAgree(indices, data) == Len(indices) = Len(data)

\* DMatrix::from_csr(indptr, indices, data, num_cols)
from_csr(indptr, indices, data, num_cols, st) ==
    /\ mode = "running"
    /\ LET rec == [BaseOp EXCEPT !.op = "from_csr", !.nindptr = Len(indptr),
                       !.nidx = Len(indices), !.ndata = Len(data),
                       !.infer = EngineInferDim(indices), !.explicit = num_cols]
       IN IF ~LengthsAgree(indices, data)
          THEN Panic(rec)
          ELSE Construct("XGDMatrixCreateFromCSREx",
                         EngineCSRShape(Len(indptr), indices, Len(data),
                                        UnwrapOr(num_cols, 0)),
                         EmptyInfo, <<>>, FALSE, st, rec)

\* DMatrix::from_csc(indptr, indices, data, num_rows)
from_csc(indptr, indices, data, num_rows, st) ==
    /\ mode = "running"
    /\ LET rec == [BaseOp EXCEPT !.op = "from_csc", !.nindptr = Len(indptr),
                       !.nidx = Len(indices), !.ndata = Len(data),
                       !.infer = EngineInferDim(indices), !.explicit = num_rows]
       IN IF ~LengthsAgree(indices, data)
          THEN Panic(rec)
          ELSE Construct("XGDMatrixCreateFromCSCEx",
                         EngineCSCShape(Len(indptr), indices, Len(data),
                                        UnwrapOr(num_rows, 0)),
                         EmptyInfo, <<>>, FALSE, st, rec)

\* DMatrix::from_dense(data, num_rows, num_cols, missing)
from_dense(data, num_rows, num_cols, st) ==
    /\ mode = "running"
    /\ Construct("XGDMatrixCreateFromMat", EngineDenseShape(num_rows, num_cols),
                 EmptyInfo, <<>>, FALSE, st,
                 [BaseOp EXCEPT !.op = "from_dense", !.ndata = Len(data)])

---------------------------------------------------------------------------
(* Drop *)

\* Mutant of DropOutcome: the failure of XGDMatrixFree is swallowed.
DropSwallowsFailure(st) == "ok"

\* xgb_call!(XGDMatrixFree(self.handle)).unwrap()
DropOutcome(st) == IF XgbCall(st) = "ok" THEN "ok" ELSE "panic"

\* impl Drop for DMatrix.  The value's lifetime ends: at scope exit while
\* running, or while a panic unwinds the stack.  A slice borrowed from the
\* value must be gone first.  A panic while unwinding aborts the process.
drop(dm, st) ==
    /\ mode \in {"running", "unwinding"}
    /\ dm \in dmats
    /\ ~Borrowed(dm.handle)
    /\ LET h == dm.handle
           r == DropOutcome(st)
       IN /\ freeCalls' = [freeCalls EXCEPT ![h] = @ + 1]
          /\ dmats' = dmats \ {dm}
          /\ IF st = 0
             THEN /\ alloc' = alloc \ {h}
                  /\ shape' = [shape EXCEPT ![h] = NullShape]
                  /\ info' = [info EXCEPT ![h] = EmptyInfo]
                  /\ group' = [group EXCEPT ![h] = <<>>]
             ELSE UNCHANGED <<alloc, shape, info, group>>
          /\ lastSet' = [lastSet EXCEPT ![h] = UnsetAll]
          /\ mode' = IF r = "ok" THEN mode
                     ELSE IF mode = "running" THEN "unwinding" ELSE "aborted"
          /\ lastOp' = [BaseOp EXCEPT !.op = "drop", !.h = h, !.res = r,
                            !.calls = <<Call("XGDMatrixFree", st)>>]
          /\ UNCHANGED <<nextH, files, views, fromFile, saved, nsets>>

---------------------------------------------------------------------------
(* Serialisation and the shape accessors *)

\* Mutant of SaveResult: the status of XGDMatrixSaveBinary is ignored.
SaveResultIgnoresStatus(st) == "ok"

\* What save returns: the status of XGDMatrixSaveBinary as an XGBResult.
SaveResult(st) == XgbCall(st)

\* DMatrix::save(&self, path, silent)
save(dm, path, st) ==
    /\ mode = "running"
    /\ dm \in dmats
    /\ LET h   == dm.handle
           rec == [BaseOp EXCEPT !.op = "save", !.h = h, !.path = path]
       IN IF CStringNew(path) # "ok"
          THEN Panic(rec)
          ELSE /\ lastOp' = [rec EXCEPT !.res = SaveResult(st),
                                 !.calls = <<Call("XGDMatrixSaveBinary", st)>>]
               /\ files' = IF st = 0
                           THEN [files EXCEPT ![path] = EngineSnapshot(h)]
                           ELSE files
               /\ saved' = IF SaveResult(st) = "ok"
                           THEN [saved EXCEPT ![path] =
                                    [rows |-> dm.num_rows, cols |-> dm.num_cols]]
                           ELSE saved
               /\ UNCHANGED <<alloc, nextH, freeCalls, shape, info, group,
                              progVars, lastSet, fromFile, nsets>>

\* DMatrix::num_rows(&self)
num_rows(dm) ==
    /\ mode = "running"
    /\ dm \in dmats
    /\ lastOp' = [BaseOp EXCEPT !.op = "num_rows", !.h = dm.handle,
                      !.rows = dm.num_rows]
    /\ UNCHANGED <<engineVars, progVars, histVars>>

\* DMatrix::num_cols(&self)
num_cols(dm) ==
    /\ mode = "running"
    /\ dm \in dmats
    /\ lastOp' = [BaseOp EXCEPT !.op = "num_cols", !.h = dm.handle,
                      !.cols = dm.num_cols]
    /\ UNCHANGED <<engineVars, progVars, histVars>>

---------------------------------------------------------------------------
(* Auxiliary fields *)

\* The key each public accessor is named after.
AccessorKey(op) ==
    CASE op \in {"get_root_index", "set_root_index"}   -> KEY_ROOT_INDEX
      [] op \in {"get_labels", "set_labels"}           -> KEY_LABEL
      [] op \in {"get_weights", "set_weights"}         -> KEY_WEIGHT
      [] op \in {"get_base_margin", "set_base_margin"} -> KEY_BASE_MARGIN
      [] OTHER -> ""

Getters == {"get_root_index", "get_labels", "get_weights", "get_base_margin"}
Setters == {"set_root_index", "set_labels", "set_weights", "set_base_margin"}

\* Mutant of ExclusiveAccess: the setters take &self.
SharedAccess(h) == TRUE

\* A method taking &mut self cannot be called while a slice returned by a
\* getter (which borrows &self for the slice's lifetime) is alive.
ExclusiveAccess(h) == ~Borrowed(h)

\* get_float_info / get_uint_info: on success, a slice over the engine's
\* buffer for the field, borrowed from self.
GetInfo(op, fn, dm, field, st) ==
    /\ mode = "running"
    /\ dm \in dmats
    /\ LET h == dm.handle
       IN /\ lastOp' = [BaseOp EXCEPT !.op = op, !.h = h, !.key = field,
                            !.res = XgbCall(st), !.calls = <<Call(fn, st)>>,
                            !.arr = IF XgbCall(st) = "ok" THEN info[h][field]
                                    ELSE <<>>]
          /\ views' = IF XgbCall(st) = "ok"
                      THEN views \cup {[owner |-> h, key |-> field,
                                        stale |-> FALSE]}
                      ELSE views
          /\ UNCHANGED <<engineVars, dmats, mode, histVars>>

get_float_info(op, dm, field, st) ==
    GetInfo(op, "XGDMatrixGetFloatInfo", dm, field, st)

get_uint_info(op, dm, field, st) ==
    GetInfo(op, "XGDMatrixGetUIntInfo", dm, field, st)

\* set_float_info / set_uint_info: the engine copies the array into the field.
\* A slice taken from the field earlier would now be stale.
SetInfo(op, fn, dm, field, array, st) ==
    /\ mode = "running"
    /\ dm \in dmats
    /\ ExclusiveAccess(dm.handle)
    /\ LET h == dm.handle
       IN /\ lastOp' = [BaseOp EXCEPT !.op = op, !.h = h, !.key = field,
                            !.res = XgbCall(st), !.calls = <<Call(fn, st)>>,
                            !.arr = array]
          /\ info' = IF st = 0 THEN [info EXCEPT ![h][field] = array] ELSE info
          /\ lastSet' = IF XgbCall(st) = "ok"
                        THEN [lastSet EXCEPT ![h][AccessorKey(op)] = array]
                        ELSE lastSet
          /\ views' = {IF v.owner = h /\ v.key = field
                       THEN [v EXCEPT !.stale = TRUE] ELSE v : v \in views}
          /\ nsets' = nsets + 1
          /\ UNCHANGED <<alloc, nextH, freeCalls, shape, group, files,
                         dmats, mode, fromFile, saved>>

set_float_info(op, dm, field, array, st) ==
    SetInfo(op, "XGDMatrixSetFloatInfo", dm, field, array, st)

set_uint_info(op, dm, field, array, st) ==
    SetInfo(op, "XGDMatrixSetUIntInfo", dm, field, array, st)

get_root_index(dm, st) == get_uint_info("get_root_index", dm, KEY_ROOT_INDEX, st)
set_root_index(dm, array, st) ==
    set_uint_info("set_root_index", dm, KEY_ROOT_INDEX, array, st)

get_labels(dm, st) == get_float_info("get_labels", dm, KEY_LABEL, st)
set_labels(dm, array, st) ==
    set_float_info("set_labels", dm, KEY_LABEL, array, st)

\* Mutant of set_weights: the setter passes the key of another field.
set_weights_as_label(dm, array, st) ==
    set_float_info("set_weights", dm, KEY_LABEL, array, st)

get_weights(dm, st) == get_float_info("get_weights", dm, KEY_WEIGHT, st)
set_weights(dm, array, st) ==
    set_float_info("set_weights", dm, KEY_WEIGHT, array, st)

get_base_margin(dm, st) == get_float_info("get_base_margin", dm, KEY_BASE_MARGIN, st)
set_base_margin(dm, array, st) ==
    set_float_info("set_base_margin", dm, KEY_BASE_MARGIN, array, st)

\* DMatrix::set_group(&mut self, group)
set_group(dm, grp, st) ==
    /\ mode = "running"
    /\ dm \in dmats
    /\ ExclusiveAccess(dm.handle)
    /\ lastOp' = [BaseOp EXCEPT !.op = "set_group", !.h = dm.handle,
                      !.res = XgbCall(st), !.arr = grp,
                      !.calls = <<Call("XGDMatrixSetGroup", st)>>]
    /\ group' = IF st = 0 THEN [group EXCEPT ![dm.handle] = grp] ELSE group
    /\ nsets' = nsets + 1
    /\ UNCHANGED <<alloc, nextH, freeCalls, shape, info, files,
                   progVars, lastSet, fromFile, saved>>

\* The caller lets go of a slice a getter returned.
release_view(v) ==
    /\ mode \in {"running", "unwinding"}
    /\ v \in views
    /\ views' = views \ {v}
    /\ lastOp' = [BaseOp EXCEPT !.op = "release_view", !.h = v.owner,
                      !.key = v.key]
    /\ UNCHANGED <<engineVars, dmats, mode, histVars>>

---------------------------------------------------------------------------
(* Specifications *)

Init ==
    /\ alloc = {}
    /\ nextH = 1
    /\ freeCalls = [h \in Handles |-> 0]
    /\ shape = [h \in Handles |-> NullShape]
    /\ info = [h \in Handles |-> EmptyInfo]
    /\ group = [h \in Handles |-> <<>>]
    /\ files = [p \in ValidPaths |-> DataFile]
    /\ dmats = {}
    /\ views = {}
    /\ mode = "running"
    /\ lastSet = [h \in Handles |-> UnsetAll]
    /\ fromFile = [h \in Handles |-> FALSE]
    /\ saved = [p \in ValidPaths |-> NoShape]
    /\ nsets = 0
    /\ lastOp = BaseOp

St3 == Status \X Status \X Status

\* Sparse inputs <<indptr, indices, data, count>>: two valid triplets (two
\* rows with indices 0 and 2; the empty matrix) with and without an explicit
\* count, and two triplets whose indices and data differ in length.
SparseSamples ==
    {<<<<0, 0, 2>>, <<0, 2>>, <<1, 1>>, n>> : n \in {None, Some(0), Some(5)}}
    \cup {<<<<0>>, <<>>, <<>>, n>> : n \in {None, Some(0)}}
    \cup {<<<<0, 1>>, <<0>>, <<>>, None>>, <<<<0, 1>>, <<0>>, <<1, 1>>, Some(5)>>}
\* Dense inputs <<data, rows, cols>> with rows * cols = data.len().
DenseSamples == {<<<<1, 1>>, 1, 2>>, <<<<1, 1>>, 2, 1>>}

\* Construction, shape, serialisation and release.
Next ==
    \/ \E p \in Paths, st \in St3 :
          nextH <= MaxHandles /\ load(p, st)
    \/ \E in \in SparseSamples, st \in St3 :
          nextH <= MaxHandles /\ from_csr(in[1], in[2], in[3], in[4], st)
    \/ \E in \in SparseSamples, st \in St3 :
          nextH <= MaxHandles /\ from_csc(in[1], in[2], in[3], in[4], st)
    \/ \E in \in DenseSamples, st \in St3 :
          nextH <= MaxHandles /\ from_dense(in[1], in[2], in[3], st)
    \/ \E dm \in dmats, p \in Paths, st \in Status : save(dm, p, st)
    \/ \E dm \in dmats : num_rows(dm)
    \/ \E dm \in dmats : num_cols(dm)
    \/ \E dm \in dmats, st \in Status : drop(dm, st)

Spec == Init /\ [][Next]_vars

\* Arrays passed to the setters.
ArraySamples == {<<3, 22, 1>>, <<7>>}
OneArray     == {<<7>>}
GroupSamples == {<<1, 2, 3>>}
InfoSparse   == {<<<<0, 0, 2>>, <<0, 2>>, <<1, 1>>, None>>,
                 <<<<0, 1>>, <<0>>, <<>>, None>>}
InfoDense    == {<<<<1, 1>>, 1, 2>>}

\* The caller holds one getter result at a time, and makes MaxSets set_* calls.
CanHold == views = {}
CanSet  == nsets < MaxSets

\* Every method, one matrix at a time: a matrix is built when no other is
\* live; construction inputs are narrowed to one valid and one invalid sample
\* each, and the setters are given one array.
CanBuild == nextH <= MaxInfoHandles /\ dmats = {}

NextAll ==
    \/ \E p \in Paths, st \in St3 :
          CanBuild /\ load(p, st)
    \/ \E in \in InfoSparse, st \in St3 :
          CanBuild /\ from_csr(in[1], in[2], in[3], in[4], st)
    \/ \E in \in InfoSparse, st \in St3 :
          CanBuild /\ from_csc(in[1], in[2], in[3], in[4], st)
    \/ \E in \in InfoDense, st \in St3 :
          CanBuild /\ from_dense(in[1], in[2], in[3], st)
    \/ \E dm \in dmats, p \in Paths, st \in Status : save(dm, p, st)
    \/ \E dm \in dmats : num_rows(dm)
    \/ \E dm \in dmats : num_cols(dm)
    \/ \E dm \in dmats, st \in Status : CanHold /\ get_root_index(dm, st)
    \/ \E dm \in dmats, st \in Status : CanHold /\ get_labels(dm, st)
    \/ \E dm \in dmats, st \in Status : CanHold /\ get_weights(dm, st)
    \/ \E dm \in dmats, st \in Status : CanHold /\ get_base_margin(dm, st)
    \/ \E dm \in dmats, a \in OneArray, st \in Status :
          CanSet /\ set_root_index(dm, a, st)
    \/ \E dm \in dmats, a \in OneArray, st \in Status :
          CanSet /\ set_labels(dm, a, st)
    \/ \E dm \in dmats, a \in OneArray, st \in Status :
          CanSet /\ set_weights(dm, a, st)
    \/ \E dm \in dmats, a \in OneArray, st \in Status :
          CanSet /\ set_base_margin(dm, a, st)
    \/ \E dm \in dmats, g \in GroupSamples, st \in Status :
          CanSet /\ set_group(dm, g, st)
    \/ \E v \in views : release_view(v)
    \/ \E dm \in dmats, st \in Status : drop(dm, st)

SpecAll == Init /\ [][NextAll]_vars

\* The auxiliary fields: matrices loaded from the file or built from a dense
\* buffer, the four getters and setters with two arrays, and release.
NextInfo ==
    \/ \E st \in St3 :
          nextH <= MaxInfoHandles /\ load(PathA, st)
    \/ \E in \in InfoDense, st \in St3 :
          nextH <= MaxInfoHandles /\ from_dense(in[1], in[2], in[3], st)
    \/ \E dm \in dmats, st \in Status : CanHold /\ get_root_index(dm, st)
    \/ \E dm \in dmats, st \in Status : CanHold /\ get_labels(dm, st)
    \/ \E dm \in dmats, st \in Status : CanHold /\ get_weights(dm, st)
    \/ \E dm \in dmats, st \in Status : CanHold /\ get_base_margin(dm, st)
    \/ \E dm \in dmats, a \in ArraySamples, st \in Status :
          CanSet /\ set_root_index(dm, a, st)
    \/ \E dm \in dmats, a \in ArraySamples, st \in Status :
          CanSet /\ set_labels(dm, a, st)
    \/ \E dm \in dmats, a \in ArraySamples, st \in Status :
          CanSet /\ set_weights(dm, a, st)
    \/ \E dm \in dmats, a \in ArraySamples, st \in Status :
          CanSet /\ set_base_margin(dm, a, st)
    \/ \E v \in views : release_view(v)
    \/ \E dm \in dmats, st \in Status : drop(dm, st)

SpecInfo == Init /\ [][NextInfo]_vars

---------------------------------------------------------------------------
(* Claims *)

Created == 1 .. (nextH - 1)
Ctors == {"load", "from_csr", "from_csc", "from_dense"}
Fallible == Ctors \cup {"save", "set_group"} \cup Getters \cup Setters
DMOf(h) == CHOOSE dm \in dmats : dm.handle = h
Failed(calls) == \E i \in 1..Len(calls) : calls[i].st # 0

\* C1: every handle a creation call returned has been released by
\* XGDMatrixFree, or is owned by a live DMatrix whose drop will release it;
\* no exit path of a constructor leaves a handle that nothing will free.
C1_EveryHandleReleased ==
    \A h \in Created : freeCalls[h] > 0 \/ Owned(h)

\* C2: XGDMatrixFree is called at most once per handle; each live DMatrix
\* owns its handle alone and that handle has not been freed; and a drop whose
\* XGDMatrixFree returned non-zero ended in a panic, not in a normal return.
C2_FreeAtMostOnce ==
    /\ \A h \in Handles : freeCalls[h] <= 1
    /\ \A d1, d2 \in dmats : d1.handle = d2.handle => d1 = d2
    /\ \A dm \in dmats : freeCalls[dm.handle] = 0
    /\ (lastOp.op = "drop" /\ Failed(lastOp.calls))
          => /\ lastOp.res = "panic"
             /\ mode \in {"unwinding", "aborted"}
             /\ Len(lastOp.calls) = 1

C2_Witness ==
    /\ lastOp.op = "drop"
    /\ lastOp.res = "panic"
    /\ freeCalls[lastOp.h] = 1
    /\ dmats # {}

\* C3: from_csr and from_csc called with indices and data of different
\* lengths panic before any engine call: no call is issued and no handle made.
C3_MismatchRejected ==
    (lastOp.op \in {"from_csr", "from_csc"} /\ lastOp.nidx # lastOp.ndata)
       => /\ lastOp.res = "panic"
          /\ lastOp.calls = <<>>
          /\ lastOp.h = NULL

C3_Witness ==
    /\ lastOp.op = "from_csc"
    /\ lastOp.nidx < lastOp.ndata
    /\ lastOp.res = "panic"

\* What get_X is claimed to return for handle h and key k.
RoundTrip(h, k, arr) ==
    /\ lastSet[h][k] # Unset => arr = lastSet[h][k]
    /\ (lastSet[h][k] = Unset /\ ~fromFile[h]) => arr = <<>>

\* C4 as stated: get_X always returns Ok, with the array of the latest
\* successful set_X, or the empty array when the key was never set.
C4_AsClaimed ==
    lastOp.op \in Getters
       => /\ lastOp.res = "ok"
          /\ RoundTrip(lastOp.h, AccessorKey(lastOp.op), lastOp.arr)

\* C4 amended: get_X returns Err exactly when the engine's getter call
\* returns non-zero; otherwise it returns Ok with the array of the latest
\* successful set_X, or the empty array when the key was never set.
C4_RoundTrip ==
    lastOp.op \in Getters
       => /\ lastOp.res = (IF Failed(lastOp.calls) THEN "err" ELSE "ok")
          /\ lastOp.res = "ok"
                => RoundTrip(lastOp.h, AccessorKey(lastOp.op), lastOp.arr)

C4_Witness ==
    /\ lastOp.op = "get_weights"
    /\ lastOp.res = "ok"
    /\ lastOp.arr = <<7>>
    /\ lastSet[lastOp.h][KEY_WEIGHT] = <<7>>
    /\ lastSet[lastOp.h][KEY_LABEL] = <<3, 22, 1>>

\* C5: a matrix from_csr returned has indptr.len() - 1 rows and, without a
\* count, max(indices) + 1 columns; with Some(n) it has n columns, for every
\* n.  from_csc is the same with rows and columns swapped.
C5_ShapeAsClaimed ==
    (lastOp.op \in {"from_csr", "from_csc"} /\ lastOp.res = "ok")
       => LET dm    == DMOf(lastOp.h)
              major == lastOp.nindptr - 1
              minor == IF lastOp.explicit = None THEN lastOp.infer
                       ELSE lastOp.explicit[1]
          IN IF lastOp.op = "from_csr"
             THEN dm.num_rows = major /\ dm.num_cols = minor
             ELSE dm.num_cols = major /\ dm.num_rows = minor

\* C6: the cached num_rows and num_cols of every live DMatrix are the values
\* the engine reported for its handle at construction, whatever was called
\* since; num_rows() and num_cols() return them, cannot fail and call nothing.
C6_ShapeIsSnapshot ==
    /\ \A dm \in dmats : /\ dm.num_rows = shape[dm.handle].rows
                         /\ dm.num_cols = shape[dm.handle].cols
    /\ lastOp.op = "num_rows"
          => /\ lastOp.res = "ok" /\ lastOp.calls = <<>>
             /\ lastOp.rows = shape[lastOp.h].rows
    /\ lastOp.op = "num_cols"
          => /\ lastOp.res = "ok" /\ lastOp.calls = <<>>
             /\ lastOp.cols = shape[lastOp.h].cols

C6_Witness ==
    /\ lastOp.op = "num_cols"
    /\ lastOp.cols = 3
    /\ shape[lastOp.h].rows = 2
    /\ nsets >= 2
    /\ lastSet[lastOp.h][KEY_LABEL] # Unset

\* The shape a successful load reports is the shape last saved to its path.
C7_SaveLoadInv ==
    (lastOp.op = "load" /\ lastOp.res = "ok" /\ saved[lastOp.path] # NoShape)
       => /\ DMOf(lastOp.h).num_rows = saved[lastOp.path].rows
          /\ DMOf(lastOp.h).num_cols = saved[lastOp.path].cols

\* C7: a load that succeeds from a path to which a save succeeded yields the
\* num_rows and num_cols of the saved matrix; and a save changes neither the
\* live DMatrix values nor anything the engine holds.
C7_SaveLoad ==
    /\ []C7_SaveLoadInv
    /\ [][lastOp'.op = "save" =>
             /\ dmats' = dmats
             /\ <<alloc, nextH, freeCalls, shape, info, group>>'
                   = <<alloc, nextH, freeCalls, shape, info, group>>]_vars

C7_Witness ==
    /\ lastOp.op = "load"
    /\ lastOp.res = "ok"
    /\ saved[lastOp.path] = [rows |-> 5, cols |-> 2]
    /\ DMOf(lastOp.h).num_rows = 5

\* C8: every slice a getter returned and the caller still holds belongs to a
\* DMatrix that is live and not freed, and no set_X for its field has run
\* since it was taken.
C8_NoStaleView ==
    \A v \in views : /\ ~v.stale
                     /\ Owned(v.owner)
                     /\ freeCalls[v.owner] = 0

C8_Witness ==
    \E v \in views : /\ lastSet[v.owner][v.key] # Unset
                     /\ lastOp.op \in Getters
                     /\ lastOp.res = "ok"
                     /\ lastOp.h = v.owner

\* C9: a fallible method returns Err exactly when one of its engine calls
\* returned non-zero; the failing call is the last one it issued, and no
\* engine function is called twice.
C9_ErrorIffEngineFailure ==
    lastOp.op \in Fallible
       => /\ (lastOp.res = "err") <=> Failed(lastOp.calls)
          /\ \A i \in 1..Len(lastOp.calls) :
                lastOp.calls[i].st # 0 => i = Len(lastOp.calls)
          /\ \A i, j \in 1..Len(lastOp.calls) :
                lastOp.calls[i].fn = lastOp.calls[j].fn => i = j

C9_Witness ==
    /\ lastOp.op = "from_csr"
    /\ lastOp.res = "err"
    /\ Len(lastOp.calls) = 2

\* C10: when the creation call of a constructor fails, the constructor
\* returns Err having issued that call alone (no XGDMatrixNumRow, NumCol or
\* Free) and no handle; and every DMatrix the program holds is complete: a
\* created, unfreed handle and the shape the engine holds for it.
C10_CreateFailure ==
    /\ (lastOp.op \in Ctors /\ lastOp.calls # <<>> /\ lastOp.calls[1].st # 0)
          => /\ lastOp.res = "err"
             /\ Len(lastOp.calls) = 1
             /\ lastOp.h = NULL
    /\ \A dm \in dmats : /\ dm.handle \in alloc
                         /\ dm.num_rows = shape[dm.handle].rows
                         /\ dm.num_cols = shape[dm.handle].cols
    /\ freeCalls[NULL] = 0

C10_Witness ==
    /\ lastOp.op = "from_dense"
    /\ lastOp.res = "err"
    /\ Len(lastOp.calls) = 1
    /\ dmats # {}

====
